---- MODULE Spec2Model ----
(***************************************************************************)
(* Model of gptwitch's asynchronous pipeline:                              *)
(*   - utils/queue_manager.py : QueueItem, AsyncQueueManager (priority     *)
(*     queue, worker loops, rate limit, start/stop, statistics)            *)
(*   - models/context_window.py : ContextWindow (bounded message and event *)
(*     buffers with optional age-based purge)                              *)
(* Time is an integer clock `now` (one reading of time.time() or           *)
(* datetime.now()).  Every action is one atomic segment of a coroutine,    *)
(* that is the code between two suspension points of the asyncio loop.     *)
(***************************************************************************)
EXTENDS Integers, Sequences, FiniteSets, TLC

\* ---------------------------------------------------------------- bounds
MaxPriority == 1      \* priorities are drawn from 0..MaxPriority
MaxWorkers  == 2      \* max_workers is drawn from 1..MaxWorkers
RateLimit   == 1      \* the non-null rate_limit explored (clock ticks)
OrderItems  == 4      \* enqueue calls explored by SpecOrder
OrderTicks  == 1      \* clock ticks explored by SpecOrder
CwMaxSize   == 3      \* max_size is drawn from 0..CwMaxSize
CwMaxAge    == 1      \* the non-null max_age explored (clock ticks)
CwOps       == 3      \* add_message/add_event calls explored by SpecCW
CwTicks     == 1      \* clock ticks explored by SpecCW
PoolItems   == 2      \* enqueue calls explored by Spec
PoolTasks   == 2      \* worker tasks created by start() calls explored by Spec
PoolTicks   == 0      \* free clock ticks explored by Spec
BotMessages == 2      \* inbound messages explored by SpecBot
DrainWaits  == 1      \* wait_empty calls suspended at a time in SpecDrain
PostSlack   == 2      \* response lengths explored on either side of the limit
ReplyCalls  == 2      \* calls of generate_and_send_response in SpecReply
StatTicks   == 1      \* clock ticks while callbacks run in SpecStats
ChatOps     == 2      \* inbound messages and reply calls explored by SpecChat
PromptSlack == 1      \* messages beyond the prompt's depth in a filled window

Priorities == 0..MaxPriority

VARIABLES
    \* AsyncQueueManager
    heap,                 \* self.queue._queue : the heapq list of (priority, item)
    unfinished,           \* self.queue._unfinished_tasks
    max_workers,          \* self.max_workers
    rate_limit,           \* self.rate_limit   (0 models None)
    workers,              \* self.workers      (the tasks in the list)
    running,              \* self.running
    last_processed_time,  \* self.last_processed_time
    stats,                \* self.stats
    \* the worker tasks created by start(), numbered in creation order
    wpc,                  \* position of each worker task in _worker
    witem,                \* the item a worker holds (local `item`)
    wtime,                \* wake-up time while sleeping, start_time in the callback
    \* the stop() calls suspended at line 87, each with the tasks it handed
    \* to asyncio.gather and (observation) the items in flight at its call
    stops,
    \* the clock
    now,
    \* observations of the run (not program state)
    starts,               \* start_time of the last two callbacks, oldest first
    taker,                \* per item: the worker that dequeued it (0: nobody yet)
    outcome,              \* per item: "none", "processed" or "errors"
    marked,               \* items for which task_done() has been called
    returned,             \* items that were in flight at the call of a stop()
                          \* that has returned
    \* ContextWindow
    cw,                   \* one ContextWindow object
    cw_inserted,          \* observation: the messages added since construction
                          \* or the last clear(), in insertion order
    cw_ops,               \* observation: add_message/add_event calls so far
    \* TwitchBot
    bot_username,         \* self.username
    context_windows,      \* self.context_windows : channel name -> ContextWindow
    processing,           \* self.processing_task : "none", "created", "failed"
    sending,              \* the event_message handlers suspended in channel.send
    sent,                 \* the channel.send calls made so far
    requests,             \* observation: ids of the messages a generation
                          \* request was issued for
    received,             \* observation: number of inbound messages so far
    last,                 \* observation: the latest inbound message and what
                          \* its event_message did before it first suspended
    completed,            \* observation: the latest handler resumed from
                          \* channel.send, with the window it found
    \* the callers of AsyncQueueManager.wait_empty
    joining,              \* calls suspended in queue.join()
    woken,                \* calls whose join() was released, not yet resumed
    wait_result,          \* observation: what the latest wait_empty that
                          \* returned left behind
    \* ResponseGenerator._post_process_response
    pp_raw,               \* the response handed in
    pp_out,               \* the value returned
    pp_env,               \* what the call found: the emote list, the coin
    \* TwitchBot.generate_and_send_response
    replying,             \* the calls in progress, each with its position
    reply_done,           \* observation: how each call that ended, ended
    prompted              \* observation: the latest prompt that was built

qvars == <<heap, unfinished, max_workers, rate_limit, workers, running,
           last_processed_time, stats, wpc, witem, wtime,
           stops, now, starts, taker, outcome, marked, returned>>

Tasks == 1..Len(wpc)
ItemIds == 1..Len(taker)

cwvars == <<cw, cw_inserted, cw_ops>>

botvars == <<bot_username, context_windows, processing, sending, sent, requests,
             received, last, completed>>

waitvars == <<joining, woken, wait_result>>

ppvars == <<pp_raw, pp_out, pp_env>>

replyvars == <<replying, reply_done, prompted>>

\* what the specifications of the pool, the window and the message handlers
\* leave untouched
restvars == <<waitvars, ppvars, replyvars>>

vars == <<qvars, cwvars, botvars, restvars>>

\* ------------------------------------------------------------ QueueItem
NoItem == [id |-> 0, priority |-> 0, created_at |-> 0]

\* QueueItem.__init__ : created_at = created_at or time.time()
QueueItem(id, priority, t) == [id |-> id, priority |-> priority, created_at |-> t]

\* QueueItem.__lt__
ItemLt(a, b) ==
    IF a.priority = b.priority
    THEN a.created_at < b.created_at
    ELSE a.priority > b.priority

\* Python's tuple comparison of the (priority, item) entries that enqueue
\* puts in the PriorityQueue: the first differing component decides, and
\* two distinct QueueItems are never == (no __eq__: identity).
EntryLt(e, f) ==
    IF e[1] # f[1] THEN e[1] < f[1]
    ELSE IF e[2].id = f[2].id THEN FALSE
    ELSE ItemLt(e[2], f[2])

\* ------------------------------------------------ heapq (0-based positions)
At(h, pos) == h[pos + 1]
Put(h, pos, x) == [h EXCEPT ![pos + 1] = x]

RECURSIVE SiftDownLoop(_, _, _, _)
SiftDownLoop(h, startpos, pos, newitem) ==
    IF pos > startpos
    THEN LET parentpos == (pos - 1) \div 2
             parent == At(h, parentpos)
         IN IF EntryLt(newitem, parent)
            THEN SiftDownLoop(Put(h, pos, parent), startpos, parentpos, newitem)
            ELSE Put(h, pos, newitem)
    ELSE Put(h, pos, newitem)

\* heapq._siftdown(heap, startpos, pos)
siftdown(h, startpos, pos) == SiftDownLoop(h, startpos, pos, At(h, pos))

RECURSIVE SiftUpLoop(_, _, _, _)
SiftUpLoop(h, startpos, pos, newitem) ==
    LET endpos == Len(h)
        childpos == 2 * pos + 1
    IN IF childpos < endpos
       THEN LET rightpos == childpos + 1
                c == IF rightpos < endpos
                        /\ ~EntryLt(At(h, childpos), At(h, rightpos))
                     THEN rightpos ELSE childpos
            IN SiftUpLoop(Put(h, pos, At(h, c)), startpos, c, newitem)
       ELSE siftdown(Put(h, pos, newitem), startpos, pos)

\* heapq._siftup(heap, pos)
siftup(h, pos) == SiftUpLoop(h, pos, pos, At(h, pos))

\* heapq.heappush, called by PriorityQueue._put
heappush(h, e) == siftdown(Append(h, e), 0, Len(h))

\* mutant of heappop: the smallest entry is returned and left in the heap
heappop_Peek(h) == <<h[1], h>>

\* heapq.heappop, called by PriorityQueue._get : <<returned entry, new heap>>
heappop(h) ==
    LET lastelt == h[Len(h)]
        rest == SubSeq(h, 1, Len(h) - 1)
    IN IF rest # <<>>
       THEN <<h[1], siftup(Put(rest, 0, lastelt), 0)>>
       ELSE <<lastelt, rest>>

\* ------------------------------------------------- AsyncQueueManager
\* the first clock reading: time.time() is far more than rate_limit after
\* the initial last_processed_time = 0
StartOfTime == RateLimit

\* AsyncQueueManager.__init__(max_workers, rate_limit)
InitQueue(mw, rl) ==
    /\ heap = <<>>
    /\ unfinished = 0
    /\ max_workers = mw
    /\ rate_limit = rl
    /\ workers = {}
    /\ running = FALSE
    /\ last_processed_time = 0
    /\ stats = [enqueued |-> 0, processed |-> 0, errors |-> 0,
                avg_processing_time |-> 0, total_processing_time |-> 0]
    /\ wpc = <<>>
    /\ witem = <<>>
    /\ wtime = <<>>
    /\ stops = {}
    /\ now = StartOfTime
    /\ starts = <<-1, -1>>
    /\ taker = <<>>
    /\ outcome = <<>>
    /\ marked = {}
    /\ returned = {}

\* AsyncQueueManager.enqueue(data, priority, callback)
enqueue(priority) ==
    /\ LET item == QueueItem(stats.enqueued + 1, priority, now)
       IN heap' = heappush(heap, <<priority, item>>)
    /\ unfinished' = unfinished + 1
    /\ stats' = [stats EXCEPT !.enqueued = @ + 1]
    /\ taker' = Append(taker, 0)
    /\ outcome' = Append(outcome, "none")
    /\ UNCHANGED <<max_workers, rate_limit, workers, running,
                   last_processed_time, wpc, witem, wtime, stops,
                   now, starts, marked, returned>>

\* AsyncQueueManager.start : the guard `if self.running: return`
StartIsNoop == running

\* n copies of x
Fill(n, x) == [i \in 1..n |-> x]

\* AsyncQueueManager.start
start ==
    IF StartIsNoop
    THEN UNCHANGED qvars
    ELSE /\ running' = TRUE
         /\ workers' = workers \cup ((Len(wpc) + 1)..(Len(wpc) + max_workers))
         /\ wpc' = wpc \o Fill(max_workers, "check")
         /\ witem' = witem \o Fill(max_workers, NoItem)
         /\ wtime' = wtime \o Fill(max_workers, 0)
         /\ UNCHANGED <<heap, unfinished, max_workers, rate_limit,
                        last_processed_time, stats, stops,
                        now, starts, taker, outcome, marked, returned>>

\* the items held by some worker loop
InFlight == {witem[t].id : t \in {u \in Tasks : witem[u] # NoItem}}

\* mutant of StopBegin: without the guard `if not self.running: return`
StopBegin_Unguarded ==
    /\ running' = FALSE
    /\ IF workers # {}
       THEN /\ stops' = stops \cup {[gather |-> workers, inflight |-> InFlight]}
            /\ UNCHANGED returned
       ELSE /\ returned' = returned \cup InFlight
            /\ UNCHANGED stops
    /\ UNCHANGED <<heap, unfinished, max_workers, rate_limit, workers,
                   last_processed_time, stats, wpc, witem,
                   wtime, now, starts, taker, outcome, marked>>

\* AsyncQueueManager.stop, up to the suspension in asyncio.gather (or to
\* its end when it does not wait)
StopBegin ==
    IF ~running
    THEN UNCHANGED qvars
    ELSE /\ running' = FALSE
         /\ IF workers # {}
            THEN /\ stops' = stops \cup {[gather |-> workers, inflight |-> InFlight]}
                 /\ UNCHANGED returned
            ELSE /\ returned' = returned \cup InFlight
                 /\ UNCHANGED stops
         /\ UNCHANGED <<heap, unfinished, max_workers, rate_limit, workers,
                        last_processed_time, stats, wpc, witem,
                        wtime, now, starts, taker, outcome, marked>>

\* asyncio.gather(*self.workers) completes when every gathered task is done
GatherDone(s) == \A t \in s.gather : wpc[t] = "exited"

\* AsyncQueueManager.stop, from the return of gather to the end
StopReturn(s) ==
    /\ s \in stops
    /\ GatherDone(s)
    /\ workers' = {}
    /\ stops' = stops \ {s}
    /\ returned' = returned \cup s.inflight
    /\ UNCHANGED <<heap, unfinished, max_workers, rate_limit, running,
                   last_processed_time, stats, wpc, witem, wtime,
                   now, starts, taker, outcome, marked>>

\* _worker lines 97-106, when queue.get() returns an item: the rate-limit
\* test against last_processed_time (of value lpt at that point), then
\* either the sleep or start_time = time.time() and the call of the callback
Take(t, lpt) ==
    /\ heap' = heappop(heap)[2]
    /\ witem' = [witem EXCEPT ![t] = heappop(heap)[1][2]]
    /\ taker' = [taker EXCEPT ![heappop(heap)[1][2].id] = t]
    /\ IF rate_limit # 0 /\ now - lpt < rate_limit
       THEN /\ wpc' = [wpc EXCEPT ![t] = "sleep"]
            /\ wtime' = [wtime EXCEPT ![t] = now + (rate_limit - (now - lpt))]
            /\ UNCHANGED starts
       ELSE /\ wpc' = [wpc EXCEPT ![t] = "callback"]
            /\ wtime' = [wtime EXCEPT ![t] = now]
            /\ starts' = <<starts[2], now>>

\* _worker lines 94-106: the loop test, then queue.get(), which returns at
\* once when the queue holds an item and suspends the task when it is empty
Loop(t, lpt) ==
    IF running /\ heap # <<>>
    THEN Take(t, lpt)
    ELSE /\ wpc' = [wpc EXCEPT ![t] = IF running THEN "waiting" ELSE "exited"]
         /\ witem' = [witem EXCEPT ![t] = NoItem]
         /\ wtime' = [wtime EXCEPT ![t] = 0]
         /\ UNCHANGED <<heap, taker, starts>>

\* _worker lines 92-106: a task created by start() runs for the first time
WorkerLoop(t) ==
    /\ wpc[t] = "check"
    /\ Loop(t, last_processed_time)
    /\ UNCHANGED <<unfinished, max_workers, rate_limit, workers, running,
                   last_processed_time, stats, stops, now, outcome, marked,
                   returned>>

\* _worker line 97: a getter suspended in queue.get() resumes once put() has
\* made an item available (self.running is not read again).  put() wakes
\* the getters one per item; which suspended worker gets the item does not
\* matter to the pool, the workers being interchangeable.
WorkerWake(t) ==
    /\ wpc[t] = "waiting"
    /\ heap # <<>>
    /\ Take(t, last_processed_time)
    /\ UNCHANGED <<unfinished, max_workers, rate_limit, workers, running,
                   last_processed_time, stats, stops, now, outcome, marked,
                   returned>>

\* _worker lines 103-106: asyncio.sleep returns, the callback is started
WorkerSleepDone(t) ==
    /\ wpc[t] = "sleep"
    /\ now >= wtime[t]
    /\ wpc' = [wpc EXCEPT ![t] = "callback"]
    /\ wtime' = [wtime EXCEPT ![t] = now]
    /\ starts' = <<starts[2], now>>
    /\ UNCHANGED <<heap, unfinished, max_workers, rate_limit, workers, running,
                   last_processed_time, stats, witem, stops,
                   now, taker, outcome, marked, returned>>

\* mutant of StatsAfterSuccess: the average is taken over the errors too
StatsAfterSuccess_AvgOverAll(s, process_time) ==
    LET total_time == s.total_processing_time + process_time
        count == s.processed + 1
    IN [s EXCEPT !.processed = count,
                 !.total_processing_time = total_time,
                 !.avg_processing_time = total_time \div (count + s.errors)]

\* _worker lines 116-121: the statistics after a callback that returned
StatsAfterSuccess(s, process_time) ==
    LET total_time == s.total_processing_time + process_time
        count == s.processed + 1
    IN [s EXCEPT !.processed = count,
                 !.total_processing_time = total_time,
                 !.avg_processing_time = total_time \div count]

\* mutant of StatsAfterError: the success counter is bumped outside the try
StatsAfterError_AlsoProcessed(s) ==
    [s EXCEPT !.errors = @ + 1, !.processed = @ + 1]

\* _worker lines 123-125: the statistics after a callback that raised
StatsAfterError(s) == [s EXCEPT !.errors = @ + 1]

\* _worker lines 127-131 and, without suspension, the next turn of the loop
\* (lines 94-106): what follows the try/except around the callback,
\* whichever branch ran
AfterCallback(t, result) ==
    /\ last_processed_time' = now
    /\ unfinished' = unfinished - 1
    /\ marked' = marked \cup {witem[t].id}
    /\ outcome' = [outcome EXCEPT ![witem[t].id] = result]
    /\ Loop(t, now)
    /\ UNCHANGED <<max_workers, rate_limit, workers, running, stops, now,
                   returned>>

\* _worker lines 109-121 and 127-131: the callback returns
CallbackReturn(t) ==
    /\ wpc[t] = "callback"
    /\ stats' = StatsAfterSuccess(stats, now - wtime[t])
    /\ AfterCallback(t, "processed")

\* mutant of CallbackRaise: the failure is not counted
CallbackRaise_Uncounted(t) ==
    /\ wpc[t] = "callback"
    /\ stats' = stats
    /\ AfterCallback(t, "errors")

\* _worker lines 109-113 and 123-131: the callback raises an Exception
CallbackRaise(t) ==
    /\ wpc[t] = "callback"
    /\ stats' = StatsAfterError(stats)
    /\ AfterCallback(t, "errors")

\* a worker is in asyncio.sleep and its wake-up time is still ahead
SleeperPending == \E t \in Tasks : wpc[t] = "sleep" /\ wtime[t] > now

\* the clock advances
Tick ==
    /\ now' = now + 1
    /\ UNCHANGED <<heap, unfinished, max_workers, rate_limit, workers, running,
                   last_processed_time, stats, wpc, witem, wtime,
                   stops, starts, taker, outcome, marked, returned>>

WorkerStep(t) ==
    \/ WorkerLoop(t)
    \/ WorkerWake(t)
    \/ WorkerSleepDone(t)
    \/ CallbackReturn(t)
    \/ CallbackRaise(t)

\* ------------------------------------- AsyncQueueManager.wait_empty
\* nobody has returned from wait_empty yet
NoWaitResult == [returned |-> FALSE, qsize |-> 0, unfinished |-> 0, inflight |-> {}]

\* what a caller finds when wait_empty returns to it
WaitResult == [returned |-> TRUE, qsize |-> Len(heap), unfinished |-> unfinished,
               inflight |-> InFlight]

InitWait ==
    /\ joining = 0
    /\ woken = 0
    /\ wait_result = NoWaitResult

\* wait_empty line 166: the test that decides whether join() is awaited
QueueHoldsItems == Len(heap) > 0

\* AsyncQueueManager.wait_empty, to its suspension in queue.join() or to
\* its end: join() is awaited only when the queue holds items (and then
\* suspends, the items being unfinished); otherwise wait_empty returns.
wait_empty ==
    IF QueueHoldsItems
    THEN /\ joining' = joining + 1
         /\ UNCHANGED <<woken, wait_result>>
    ELSE /\ wait_result' = WaitResult
         /\ UNCHANGED <<joining, woken>>

\* _worker line 131: the task_done() that brings the unfinished count to 0
\* releases every caller suspended in join(); the other steps of the pool
\* leave them as they are
JoinNotify ==
    /\ IF unfinished > 0 /\ unfinished' = 0
       THEN joining' = 0 /\ woken' = woken + joining
       ELSE UNCHANGED <<joining, woken>>
    /\ UNCHANGED wait_result

\* wait_empty line 167: a released join() returns, and wait_empty with it
JoinReturn ==
    /\ woken > 0
    /\ woken' = woken - 1
    /\ wait_result' = WaitResult
    /\ UNCHANGED joining

\* ------------------------------------------------------- ContextWindow
None == -1

Users == {"alice", "bob"}

\* an event without a username: None, which `if event.username:` treats
\* like the empty string
NoUser == ""

\* ChatMessage / StreamEvent.__post_init__ : timestamp defaults to now
Stamped(timestamp, t) == IF timestamp = None THEN t ELSE timestamp

\* the fields of a ChatMessage or StreamEvent that the window reads
Entry(id, username, timestamp, t) ==
    [id |-> id, username |-> username, timestamp |-> Stamped(timestamp, t)]

\* a message of a window with the fields of its ChatMessage
Chat(id, channel, username, message, timestamp, is_subscriber, is_mod, t) ==
    [id |-> id, channel |-> channel, username |-> username,
     message |-> message, timestamp |-> Stamped(timestamp, t),
     is_subscriber |-> is_subscriber, is_mod |-> is_mod]

\* Python truthiness of `self.max_age` : None and timedelta(0) are false
Truthy(max_age) == max_age # None /\ max_age # 0

\* deque(maxlen=max_size) for messages
MessagesMaxLen(w) == w.max_size

\* mutant of EventsMaxLen: events get the capacity of messages
EventsMaxLen_Full(w) == w.max_size

\* deque(maxlen=max_size // 2) for events
EventsMaxLen(w) == w.max_size \div 2

\* mutant of DequeAppend: a full deque refuses the new element
DequeAppend_DropNew(d, maxlen, x) ==
    IF maxlen = 0 THEN d
    ELSE IF Len(d) = maxlen THEN d
    ELSE Append(d, x)

\* collections.deque.append on a deque with the given maxlen
DequeAppend(d, maxlen, x) ==
    IF maxlen = 0 THEN d
    ELSE IF Len(d) = maxlen THEN Append(Tail(d), x)
    ELSE Append(d, x)

\* ContextWindow.__init__
ContextWindow(max_size, max_age, t) ==
    [messages |-> <<>>, events |-> <<>>,
     max_size |-> max_size, max_age |-> max_age,
     metadata |-> [created_at |-> t, message_count |-> 0,
                   event_count |-> 0, active_users |-> {}]]

\* the loop `while d and d[0].timestamp < cutoff_time: d.popleft()`
RECURSIVE PopExpired(_, _)
PopExpired(d, cutoff_time) ==
    IF d # <<>> /\ d[1].timestamp < cutoff_time
    THEN PopExpired(Tail(d), cutoff_time)
    ELSE d

\* mutant of cleanup_old_messages: every expired message is removed,
\* wherever it sits in the buffer
cleanup_old_messages_Filter(w, t) ==
    IF ~Truthy(w.max_age) THEN w
    ELSE [w EXCEPT !.messages =
            SelectSeq(@, LAMBDA m : ~(m.timestamp < t - w.max_age))]

\* ContextWindow._cleanup_old_messages
cleanup_old_messages(w, t) ==
    IF ~Truthy(w.max_age) THEN w
    ELSE [w EXCEPT !.messages = PopExpired(@, t - w.max_age)]

\* ContextWindow._cleanup_old_events
cleanup_old_events(w, t) ==
    IF ~Truthy(w.max_age) THEN w
    ELSE [w EXCEPT !.events = PopExpired(@, t - w.max_age)]

\* mutant of add_message: the counter and the user set follow the buffer
add_message_AsStored(w, message, t) ==
    LET stored == DequeAppend(w.messages, MessagesMaxLen(w), message)
        withMessage == [w EXCEPT
                 !.messages = stored,
                 !.metadata.message_count = @ + Len(stored) - Len(w.messages),
                 !.metadata.active_users =
                     {stored[i].username : i \in 1..Len(stored)}
                     \cup {e.username : e \in {w.events[i] : i \in 1..Len(w.events)}}]
    IN IF Truthy(w.max_age) THEN cleanup_old_messages(withMessage, t) ELSE withMessage

\* ContextWindow.add_message
add_message(w, message, t) ==
    LET withMessage == [w EXCEPT
                 !.messages = DequeAppend(@, MessagesMaxLen(w), message),
                 !.metadata.message_count = @ + 1,
                 !.metadata.active_users = @ \cup {message.username}]
    IN IF Truthy(w.max_age) THEN cleanup_old_messages(withMessage, t) ELSE withMessage

\* ContextWindow.add_event
add_event(w, event, t) ==
    LET withEvent == [w EXCEPT
                 !.events = DequeAppend(@, EventsMaxLen(w), event),
                 !.metadata.event_count = @ + 1,
                 !.metadata.active_users =
                     IF event.username # NoUser THEN @ \cup {event.username} ELSE @]
    IN IF Truthy(w.max_age) THEN cleanup_old_events(withEvent, t) ELSE withEvent

\* Python's l[-count:]
SliceFromMinus(l, count) ==
    LET first == IF -count < 0
                 THEN (IF Len(l) - count < 0 THEN 0 ELSE Len(l) - count)
                 ELSE (IF -count > Len(l) THEN Len(l) ELSE -count)
    IN SubSeq(l, first + 1, Len(l))

\* ContextWindow.get_recent_messages
get_recent_messages(w, count) ==
    IF count = None \/ count >= Len(w.messages)
    THEN w.messages
    ELSE SliceFromMinus(w.messages, count)

\* ContextWindow.get_recent_events
get_recent_events(w, count) ==
    IF count = None \/ count >= Len(w.events)
    THEN w.events
    ELSE SliceFromMinus(w.events, count)

\* mutant of clear: the buffers are emptied, the metadata is kept
clear_KeepMetadata(w, t) ==
    [w EXCEPT !.messages = <<>>, !.events = <<>>]

\* ContextWindow.clear
clear(w, t) ==
    [w EXCEPT !.messages = <<>>, !.events = <<>>,
              !.metadata = [created_at |-> t, message_count |-> 0,
                            event_count |-> 0, active_users |-> {}]]

\* ContextWindow.get_context_summary (the user list itself is left out)
get_context_summary(w, t) ==
    [window_age_seconds |-> t - w.metadata.created_at,
     message_count |-> w.metadata.message_count,
     event_count |-> w.metadata.event_count,
     current_message_count |-> Len(w.messages),
     current_event_count |-> Len(w.events),
     active_user_count |-> Cardinality(w.metadata.active_users)]

\* the timestamps a caller may pass: none (the entry is stamped now), or a
\* clock reading that lies further back than the explored max_age
Timestamps == {None} \cup {t \in {now - CwMaxAge - 1} : t >= 0}

\* a caller adds a message to the window
AddMessage(username, timestamp) ==
    LET message == Entry(cw_ops + 1, username, timestamp, now)
    IN /\ cw' = add_message(cw, message, now)
       /\ cw_inserted' = Append(cw_inserted, message)
       /\ cw_ops' = cw_ops + 1
       /\ UNCHANGED qvars

\* a caller adds an event to the window
AddEvent(username, timestamp) ==
    /\ cw' = add_event(cw, Entry(cw_ops + 1, username, timestamp, now), now)
    /\ cw_ops' = cw_ops + 1
    /\ UNCHANGED <<cw_inserted, qvars>>

\* a caller clears the window
Clear ==
    /\ cw' = clear(cw, now)
    /\ cw_inserted' = <<>>
    /\ UNCHANGED <<cw_ops, qvars>>

\* the clock advances under the window
CwTick ==
    /\ Tick
    /\ UNCHANGED cwvars

\* the window that the specifications of the pool leave untouched
InitWindow(max_size, max_age) ==
    /\ cw = ContextWindow(max_size, max_age, now)
    /\ cw_inserted = <<>>
    /\ cw_ops = 0

\* ------------------------------------------------------------ TwitchBot
\* Strings are sequences of characters, so that str.lower(), the `in`
\* test, str.startswith and re.match are computed as Python computes them.
LowerChar(c) ==
    CASE c = "B" -> "b" [] c = "O" -> "o" [] c = "T" -> "t"
      [] c = "C" -> "c" [] c = "R" -> "r" [] OTHER -> c

\* str.lower
lower(s) == [i \in 1..Len(s) |-> LowerChar(s[i])]

\* `sub in s`
Contains(sub, s) ==
    \E i \in 0..(Len(s) - Len(sub)) : SubSeq(s, i + 1, i + Len(sub)) = sub

\* str.startswith
startswith(s, prefix) ==
    Len(s) >= Len(prefix) /\ SubSeq(s, 1, Len(prefix)) = prefix

\* the regular expression class \w, over the characters the model uses
IsWordChar(c) == c \notin {"!", "@", " "}

\* the longest prefix of s made of \w characters
RECURSIVE WordPrefix(_)
WordPrefix(s) ==
    IF s # <<>> /\ IsWordChar(s[1]) THEN <<s[1]>> \o WordPrefix(Tail(s)) ELSE <<>>

\* the value of `command` in TwitchBot.handle_command, <<>> when re.match
\* finds no match and handle_command returns
CommandName(content) ==
    IF startswith(content, <<"!">>) /\ WordPrefix(Tail(content)) # <<>>
    THEN lower(WordPrefix(Tail(content)))
    ELSE <<>>

\* str.split()[0] of a text that does not start with whitespace
RECURSIVE FirstToken(_)
FirstToken(s) ==
    IF s # <<>> /\ s[1] # " " THEN <<s[1]>> \o FirstToken(Tail(s)) ELSE <<>>

\* ChatMessage.get_command for a text that starts with the prefix "!": the
\* first whitespace-delimited token, without the prefix, in lower case
\* (the empty string when nothing follows the prefix); None, written <<>>
\* as well, for any other text
get_command(content) ==
    IF startswith(content, <<"!">>) THEN lower(Tail(FirstToken(content)))
    ELSE <<>>

\* CommandHandler._register_commands : the cmd_ methods
Commands ==
    {<<"h","e","l","p">>, <<"i","n","f","o">>, <<"p","i","n","g">>,
     <<"r","e","s","e","t">>}

\* TwitchBot.__init__ : max_size of every channel's window
WindowSize == 50

\* the bot's username and the channels it is configured with
BotName == <<"B","o","t">>
BotChannels == {<<"c","h","a","n">>}

\* message.author of an inbound message: None, or a chatter
NoAuthor == [present |-> FALSE, name |-> <<>>, is_mod |-> FALSE]
Chatter(name, is_mod) == [present |-> TRUE, name |-> name, is_mod |-> is_mod]

\* the authors of inbound messages: nobody, the bot itself (in another
\* case), a plain user, a moderator, the channel owner without the flag
Authors ==
    {NoAuthor,
     Chatter(<<"B","O","T">>, FALSE),
     Chatter(<<"a","l">>, FALSE),
     Chatter(<<"m","o">>, TRUE),
     Chatter(<<"C","h","a","n">>, FALSE)}

\* the channels inbound messages arrive in: a configured one and one
\* that has no context window
InboundChannels == BotChannels \cup {<<"o","f","f">>}

\* the texts of inbound messages: plain, a mention inside a longer word and
\* in another case, the reset command in another case, a command together
\* with a mention, an unknown command, "!" followed by no command name,
\* and a command name followed by a character that is no word character
Contents ==
    {<<"h","i">>,
     <<"x","@","B","O","T","s">>,
     <<"!","R","e","s","e","t">>,
     <<"!","p","i","n","g"," ","@","b","o","t">>,
     <<"!","n","o">>,
     <<"!"," ","h","i">>,
     <<"!","p","i","n","g","!">>}

\* the texts the bot sends
NoReply == ""

\* mutant of IsOwnMessage: the names are compared as they are written
IsOwnMessage_CaseSensitive(message, name) ==
    message.author.present /\ message.author.name = name

\* TwitchBot.event_message line 105: the message is the bot's own
IsOwnMessage(message, name) ==
    message.author.present /\ lower(message.author.name) = lower(name)

\* TwitchBot.event_message lines 109-116: the ChatMessage of a message
ChatMessageOf(message, t) ==
    [channel |-> message.channel,
     entry |-> Chat(message.id, message.channel,
                    IF message.author.present THEN message.author.name
                    ELSE <<"A","n","o","n","y","m","o","u","s">>,
                    message.content, t, FALSE,
                    message.author.present /\ message.author.is_mod, t),
     message |-> message.content]

\* mutant of AddToContext: the message is not in the window yet when the
\* command is handled
AddToContext_Later(windows, chat_message, t) == windows

\* TwitchBot.event_message lines 119-120
AddToContext(windows, chat_message, t) ==
    IF chat_message.channel \in DOMAIN windows
    THEN [windows EXCEPT ![chat_message.channel] =
             add_message(@, chat_message.entry, t)]
    ELSE windows

\* TwitchBot.should_respond_to
should_respond_to(name, text) == Contains(<<"@">> \o lower(name), lower(text))

\* the outcome of a command: the windows, the text handed to channel.send
\* (NoReply: nothing is sent) and the exception handle_command caught
Outcome(windows, reply, caught) ==
    [windows |-> windows, reply |-> reply, caught |-> caught]

\* mutant of cmd_reset: the confirmation is sent, the window is kept
cmd_reset_NoClear(windows, message, t) ==
    IF ~message.author.present
    THEN Outcome(windows, NoReply, "AttributeError")
    ELSE IF ~message.author.is_mod
    THEN Outcome(windows, NoReply, "NameError")
    ELSE IF message.channel \in DOMAIN windows
    THEN Outcome(windows, "reset", "")
    ELSE Outcome(windows, NoReply, "")

\* CommandHandler.cmd_reset.  `channel` is not a name of cmd_reset's scope:
\* evaluating the owner test raises NameError, and the test is evaluated
\* whenever is_mod is false.
cmd_reset(windows, message, t) ==
    IF ~message.author.present
    THEN Outcome(windows, NoReply, "AttributeError")
    ELSE IF ~message.author.is_mod
    THEN Outcome(windows, NoReply, "NameError")
    ELSE IF message.channel \in DOMAIN windows
    THEN Outcome([windows EXCEPT ![message.channel] = clear(@, t)], "reset", "")
    ELSE Outcome(windows, NoReply, "")

\* mutant of handle_command: an unknown command is answered
handle_command_AnswerUnknown(windows, command, message, t) ==
    IF command \notin Commands THEN Outcome(windows, "unknown", "")
    ELSE IF command = <<"r","e","s","e","t">> THEN cmd_reset(windows, message, t)
    ELSE IF command = <<"h","e","l","p">> THEN Outcome(windows, "help", "")
    ELSE IF command = <<"i","n","f","o">> THEN Outcome(windows, "info", "")
    ELSE Outcome(windows, "pong", "")

\* CommandHandler.handle_command, up to the channel.send of the command
handle_command(windows, command, message, t) ==
    IF command \notin Commands THEN Outcome(windows, NoReply, "")
    ELSE IF command = <<"r","e","s","e","t">> THEN cmd_reset(windows, message, t)
    ELSE IF command = <<"h","e","l","p">> THEN Outcome(windows, "help", "")
    ELSE IF command = <<"i","n","f","o">> THEN Outcome(windows, "info", "")
    ELSE Outcome(windows, "pong", "")

\* no inbound message yet
NoMessage == [id |-> 0, channel |-> <<>>, author |-> NoAuthor, content |-> <<>>]

\* what event_message did with an inbound message before it first suspended
\* or ended: dropped as the bot's own; entered: a registered command was
\* invoked, seen: the messages of the channel's window at that point;
\* caught: the exception handle_command caught; reply: the text handed to
\* channel.send; fault: the exception that ended event_message
Handling(message, dropped, entered, seen, caught, reply, fault) ==
    [message |-> message, dropped |-> dropped, entered |-> entered,
     seen |-> seen, caught |-> caught, reply |-> reply, fault |-> fault]

\* no handler has resumed from channel.send yet
NoCompletion == [id |-> 0, reply |-> NoReply, messages |-> <<>>,
                 message_count |-> 0, fault |-> ""]

\* TwitchBot.__init__ (the attributes as the constructor sets them up;
\* message_queue is a MessageQueue that is never started)
InitBot ==
    /\ bot_username = BotName
    /\ context_windows = [c \in BotChannels |-> ContextWindow(WindowSize, None, now)]
    /\ processing = "none"
    /\ sending = {}
    /\ sent = {}
    /\ requests = {}
    /\ received = 0
    /\ last = Handling(NoMessage, FALSE, FALSE, <<>>, "", NoReply, "")
    /\ completed = NoCompletion

\* TwitchBot.connect line 64: the processing task is created
Connect ==
    /\ processing = "none"
    /\ processing' = "created"
    /\ UNCHANGED <<bot_username, context_windows, sending, sent, requests,
                   received, last, completed, qvars, cwvars>>

\* TwitchBot.process_message_queue, first run of the task: MessageQueue has
\* no attribute `get`, line 156 raises AttributeError, which the handler of
\* CancelledError does not catch: the task ends.
ProcessMessageQueue ==
    /\ processing = "created"
    /\ processing' = "failed"
    /\ UNCHANGED <<bot_username, context_windows, sending, sent, requests,
                   received, last, completed, qvars, cwvars>>

\* the messages of a channel's window (none when it has no window)
WindowMessages(windows, channel) ==
    IF channel \in DOMAIN windows THEN windows[channel].messages ELSE <<>>

\* TwitchBot.event_message from its call to its first suspension, in the
\* channel.send of a command, or to its end: without a send the handler
\* runs on to line 127, where MessageQueue has no attribute `put` and
\* AttributeError ends it.
EventMessage(channel, author, content) ==
    LET message == [id |-> received + 1, channel |-> channel,
                    author |-> author, content |-> content]
        chat_message == ChatMessageOf(message, now)
        added == AddToContext(context_windows, chat_message, now)
        command == IF startswith(content, <<"!">>) THEN CommandName(content)
                   ELSE <<>>
        result == handle_command(added, command, message, now)
    IN /\ processing = "failed"
       /\ received' = received + 1
       /\ IF IsOwnMessage(message, bot_username)
          THEN /\ last' = Handling(message, TRUE, FALSE, <<>>, "", NoReply, "")
               /\ UNCHANGED <<context_windows, sending, sent>>
          ELSE /\ context_windows' = result.windows
               /\ last' = Handling(message, FALSE, command \in Commands,
                                   IF command \in Commands
                                   THEN WindowMessages(added, channel) ELSE <<>>,
                                   result.caught, result.reply,
                                   IF result.reply = NoReply
                                   THEN "AttributeError" ELSE "")
               /\ IF result.reply = NoReply
                  THEN UNCHANGED <<sending, sent>>
                  ELSE /\ sending' = sending \cup
                              {[id |-> message.id, channel |-> channel,
                                reply |-> result.reply]}
                       /\ sent' = sent \cup
                              {[id |-> message.id, channel |-> channel,
                                reply |-> result.reply]}
       /\ UNCHANGED <<bot_username, processing, requests, completed, qvars, cwvars>>

\* the handler h resumes from channel.send and runs to its end: the command
\* is completed, then line 127 raises AttributeError
Resume(h) ==
    /\ h \in sending
    /\ sending' = sending \ {h}
    /\ completed' =
          [id |-> h.id, reply |-> h.reply,
           messages |-> WindowMessages(context_windows, h.channel),
           message_count |-> IF h.channel \in DOMAIN context_windows
                             THEN context_windows[h.channel].metadata.message_count
                             ELSE 0,
           fault |-> "AttributeError"]
    /\ UNCHANGED <<bot_username, context_windows, processing, requests, received,
                   last, qvars, cwvars>>

\* CommandHandler.cmd_* : channel.send returns
SendReturn(h) ==
    /\ Resume(h)
    /\ UNCHANGED sent

\* CommandHandler.handle_command lines 49-50: channel.send raises, the
\* exception is caught and logged; nothing was sent
SendRaise(h) ==
    /\ Resume(h)
    /\ sent' = sent \ {h}

\* --------------------------- ResponseGenerator._post_process_response
\* A response is a string of up to several hundred characters; it is kept
\* as its runs of equal characters, <<[c |-> "a", n |-> 499], ...>>, with
\* no empty run and no two neighbouring runs of the same character.
Run(c, n) == [c |-> c, n |-> n]

RECURSIVE Norm(_)
Norm(s) ==
    IF s = <<>> THEN <<>>
    ELSE LET r == Norm(Tail(s))
         IN  IF Head(s).n = 0 THEN r
             ELSE IF r # <<>> /\ r[1].c = Head(s).c
                  THEN <<Run(Head(s).c, Head(s).n + r[1].n)>> \o Tail(r)
                  ELSE <<Head(s)>> \o r

\* len(response)
RECURSIVE RLen(_)
RLen(s) == IF s = <<>> THEN 0 ELSE Head(s).n + RLen(Tail(s))

\* a + b
Concat(a, b) == Norm(a \o b)

\* response[:k]
RECURSIVE RTake(_, _)
RTake(s, k) ==
    IF k <= 0 \/ s = <<>> THEN <<>>
    ELSE IF Head(s).n >= k THEN <<Run(Head(s).c, k)>>
         ELSE <<Head(s)>> \o RTake(Tail(s), k - Head(s).n)

DropFirst(s) ==
    IF s[1].n = 1 THEN Tail(s) ELSE <<Run(s[1].c, s[1].n - 1)>> \o Tail(s)

DropLast(s) ==
    LET k == Len(s)
    IN  IF s[k].n = 1 THEN SubSeq(s, 1, k - 1)
        ELSE SubSeq(s, 1, k - 1) \o <<Run(s[k].c, s[k].n - 1)>>

Whitespace == {" "}
QuoteChars == {"\"", "'"}

\* str.strip(): all leading and all trailing whitespace
strip(s) ==
    LET a == IF s # <<>> /\ s[1].c \in Whitespace THEN Tail(s) ELSE s
    IN  IF a # <<>> /\ a[Len(a)].c \in Whitespace
        THEN SubSeq(a, 1, Len(a) - 1) ELSE a

\* line 115, re.sub(r'^["\']|["\']$', '', ...): one quote character at the
\* start and one at the end are removed (the two matches do not overlap)
Unquote(s) ==
    LET a == IF s # <<>> /\ s[1].c \in QuoteChars THEN DropFirst(s) ELSE s
    IN  IF a # <<>> /\ a[Len(a)].c \in QuoteChars THEN DropLast(a) ELSE a

TwitchLimit == 500
CutLength == 497
Ellipsis == <<Run(".", 3)>>

\* lines 118-119 with the limit reached one character early
Truncate_AtLimit(s) ==
    IF RLen(s) >= TwitchLimit THEN Concat(RTake(s, CutLength), Ellipsis) ELSE s

\* lines 118-119
Truncate(s) ==
    IF RLen(s) > TwitchLimit THEN Concat(RTake(s, CutLength), Ellipsis) ELSE s

\* `emote in response` for an emote code that is one run of a character
Mentions(response, emote) ==
    \E k \in 1..Len(response) :
        response[k].c = emote[1].c /\ response[k].n >= emote[1].n

\* mutant of post_process_response: the emote is appended whether or not
\* the response holds one already
post_process_response_AlwaysAppend(response, all_emotes, roll) ==
    LET cut == Truncate(Unquote(strip(response)))
    IN  IF roll /\ all_emotes # {}
        THEN {Concat(Concat(cut, <<Run(" ", 1)>>), e) : e \in all_emotes}
        ELSE {cut}

\* lines 114-129; roll is random.random() < 0.3, and the result is the set
\* of values random.choice can lead to
post_process_response(response, all_emotes, roll) ==
    LET cut == Truncate(Unquote(strip(response)))
    IN  IF roll /\ ~(\E e \in all_emotes : Mentions(cut, e)) /\ all_emotes # {}
        THEN {Concat(Concat(cut, <<Run(" ", 1)>>), e) : e \in all_emotes}
        ELSE {cut}

\* the responses handed in: optional whitespace and quote characters around
\* a body whose length is near the limit, with or without an emote code
Kappa == <<Run("K", 1)>>
Raws ==
    {Norm(<<Run(" ", w1), Run(q1, k1), Run("a", n), Run("K", e),
            Run(q2, k2), Run(" ", w2)>>) :
        w1 \in 0..1, w2 \in 0..1, q1 \in QuoteChars, q2 \in QuoteChars,
        k1 \in 0..1, k2 \in 0..1, e \in 0..1,
        n \in {0, 1, TwitchLimit + 100}
              \cup ((TwitchLimit - PostSlack)..(TwitchLimit + PostSlack))}

\* emotes.get("all", []): empty for the dictionary the loaders of
\* config/emotes.py build (its keys are the emote sources), a list only if
\* the cache file carries an entry "all"
EmoteLists == {{}, {Kappa}}

NoCall == [called |-> FALSE, all_emotes |-> {}, roll |-> FALSE]

InitPost == pp_raw = <<>> /\ pp_out = <<>> /\ pp_env = NoCall

\* a call that is about to be made
InitCall ==
    /\ pp_raw \in Raws \ {<<>>}
    /\ pp_out = <<>>
    /\ pp_env \in [called : {FALSE}, all_emotes : EmoteLists, roll : BOOLEAN]

PostProcess ==
    /\ ~pp_env.called
    /\ pp_out' \in post_process_response(pp_raw, pp_env.all_emotes, pp_env.roll)
    /\ pp_env' = [pp_env EXCEPT !.called = TRUE]
    /\ UNCHANGED pp_raw

\* ------------------------------- TwitchBot.generate_and_send_response
\* the texts generate_response returns
Replies == {<<"o","k">>, <<"h","i","!">>}

\* mutant of BotMessage: the flags are left at the defaults of ChatMessage
BotMessage_Defaults(c, name, t) ==
    Chat(0 - c.id, c.channel, name, c.response, None, FALSE, FALSE, t)

\* lines 216-223: the ChatMessage of the reply that was sent
BotMessage(c, name, t) ==
    Chat(0 - c.id, c.channel, name, c.response, None, FALSE, TRUE, t)

\* line 201, self.context_windows.get(message.channel); None is written
\* as a window that holds nothing
GetWindow(windows, channel) ==
    IF channel \in DOMAIN windows THEN windows[channel]
    ELSE ContextWindow(0, None, 0)

\* mutant of NoContext: a window is taken to exist for every channel
NoContext_EmptyOnly(windows, channel) ==
    /\ channel \in DOMAIN windows
    /\ Len(windows[channel].messages) + Len(windows[channel].events) = 0

\* line 202, `if not context`: no window for the channel, or a window
\* whose __len__ (messages plus events) is 0
NoContext(windows, channel) ==
    \/ channel \notin DOMAIN windows
    \/ Len(windows[channel].messages) + Len(windows[channel].events) = 0

Call(id, channel, pc, response) ==
    [id |-> id, channel |-> channel, pc |-> pc, response |-> response]

Ended(c, result) == [id |-> c.id, channel |-> c.channel, result |-> result,
                     response |-> c.response]

\* ResponseGenerator._create_prompt line 79: the depth of the context
PromptLines == 10

\* mutant of create_prompt: the oldest messages of the window are taken
create_prompt_Oldest(context) ==
    LET recent_messages == SubSeq(context.messages, 1,
                               IF Len(context.messages) < PromptLines
                               THEN Len(context.messages) ELSE PromptLines)
    IN  [i \in 1..Len(recent_messages) |->
           recent_messages[i].username \o <<":", " ">> \o recent_messages[i].message]

\* ResponseGenerator._create_prompt lines 79-84: the lines of context_text,
\* each f"{msg.username}: {msg.message}" (line 83)
create_prompt(context) ==
    LET recent_messages == get_recent_messages(context, PromptLines)
    IN  [i \in 1..Len(recent_messages) |->
           recent_messages[i].username \o <<":", " ">> \o recent_messages[i].message]

InitReply ==
    /\ replying = {}
    /\ reply_done = <<>>
    /\ prompted = [id |-> 0, channel |-> <<>>, lines |-> <<>>]

\* a window as event_message leaves it after n messages of a chatter
Filled(channel, n, t) ==
    [ContextWindow(WindowSize, None, t) EXCEPT
        !.messages = [k \in 1..n |->
                         Chat(k - n, channel, <<"a","l">>, <<"h","i">>, t,
                              FALSE, FALSE, t)],
        !.metadata.message_count = n,
        !.metadata.active_users = IF n > 0 THEN {<<"a","l">>} ELSE {}]

\* a window as event_message leaves it after a chatter's message
Heard(w, channel, t) ==
    add_message(w, Chat(0, channel, <<"a","l">>, <<"h","i">>, t, FALSE, FALSE, t), t)

\* lines 201-206: the call of generate_and_send_response for a message of
\* the channel, up to its first suspension in generate_response
GenerateAndSend(channel) ==
    LET c == Call(Len(reply_done) + Cardinality(replying) + 1, channel,
                  "generating", <<>>)
    IN  /\ IF NoContext(context_windows, channel)
           THEN /\ reply_done' = Append(reply_done, Ended(c, "no_context"))
                /\ UNCHANGED <<replying, requests, prompted>>
           ELSE /\ replying' = replying \cup {c}
                /\ requests' = requests \cup {c.id}
                /\ prompted' = [id |-> c.id, channel |-> channel,
                                lines |-> create_prompt(
                                             GetWindow(context_windows, channel))]
                /\ UNCHANGED reply_done
        /\ UNCHANGED <<bot_username, context_windows, processing, sending, sent,
                       received, last, completed>>

\* ResponseGenerator.generate_response lines 53-65 and
\* generate_and_send_response line 208: the service returned nothing, the
\* cleaned text is empty, or an exception was caught and logged; the call
\* ends without sending
GenerateNothing(c) ==
    /\ c \in replying /\ c.pc = "generating"
    /\ replying' = replying \ {c}
    /\ \E result \in {"none", "empty", "raised"} :
          reply_done' = Append(reply_done, Ended(c, result))
    /\ UNCHANGED <<botvars, prompted>>

\* lines 208-213: generate_response returned a text; get_channel finds the
\* channel or not, and channel.send suspends the call
GenerateReturn(c, response, joined) ==
    LET d == [c EXCEPT !.response = response, !.pc = "sending"]
    IN  /\ c \in replying /\ c.pc = "generating"
        /\ IF joined
           THEN /\ replying' = (replying \ {c}) \cup {d}
                /\ UNCHANGED reply_done
           ELSE /\ replying' = replying \ {c}
                /\ reply_done' = Append(reply_done, Ended(d, "no_channel"))
        /\ UNCHANGED <<botvars, prompted>>

\* mutant of Remember: the reply is added to the window of every channel
Remember_Everywhere(windows, c, name, t) ==
    [ch \in DOMAIN windows |-> add_message(windows[ch], BotMessage(c, name, t), t)]

\* line 224, context.add_message(bot_message), on the window that line 201
\* looked up
Remember(windows, c, name, t) ==
    [windows EXCEPT ![c.channel] = add_message(@, BotMessage(c, name, t), t)]

\* mutant of ReplySendReturn: the reply takes the place of the newest
\* message of the window
ReplySendReturn_Replace(c) ==
    /\ c \in replying /\ c.pc = "sending"
    /\ replying' = replying \ {c}
    /\ reply_done' = Append(reply_done, Ended(c, "sent"))
    /\ context_windows' =
          [context_windows EXCEPT ![c.channel].messages =
              SubSeq(@, 1, Len(@) - 1)
                 \o <<BotMessage(c, bot_username, now)>>]
    /\ UNCHANGED <<bot_username, processing, sending, sent, requests,
                   received, last, completed, prompted>>

\* lines 213-224: channel.send returned, the reply is added to the window
\* that line 201 looked up
ReplySendReturn(c) ==
    /\ c \in replying /\ c.pc = "sending"
    /\ replying' = replying \ {c}
    /\ reply_done' = Append(reply_done, Ended(c, "sent"))
    /\ context_windows' = Remember(context_windows, c, bot_username, now)
    /\ UNCHANGED <<bot_username, processing, sending, sent, requests,
                   received, last, completed, prompted>>

\* line 213: channel.send raises; the exception leaves
\* generate_and_send_response
ReplySendRaise(c) ==
    /\ c \in replying /\ c.pc = "sending"
    /\ replying' = replying \ {c}
    /\ reply_done' = Append(reply_done, Ended(c, "send_failed"))
    /\ UNCHANGED <<botvars, prompted>>

\* the groups of variables that a specification does not use start, and
\* stay, as follows
InitRest == InitWait /\ InitPost /\ InitReply

\* ------------------------------------------------------ specifications
\* Spec: the pool with any max_workers and with or without a rate limit,
\* producers, and callers of start() and stop() running concurrently.
Init ==
    /\ \E mw \in 1..MaxWorkers, rl \in {0, RateLimit} : InitQueue(mw, rl)
    /\ InitWindow(0, None)
    /\ InitBot
    /\ InitRest

QueueNext ==
    \/ stats.enqueued < PoolItems /\ enqueue(0)
    \/ (running \/ Len(wpc) + max_workers <= PoolTasks) /\ start
    \/ StopBegin
    \/ \E s \in stops : StopReturn(s)
    \/ \E t \in Tasks : WorkerStep(t)
    \/ (now < StartOfTime + PoolTicks \/ SleeperPending) /\ Tick

Next == QueueNext /\ UNCHANGED <<cwvars, botvars, restvars>>

Spec == Init /\ [][Next]_vars


\* the scheduling of the asyncio loop: every task that is ready to run is
\* run, time passes while a task sleeps; producers and callers of start()
\* and stop() are under no obligation
AllTasks == 1..PoolTasks

Fairness ==
    /\ \A t \in AllTasks :
         WF_vars(t \in Tasks /\ WorkerStep(t) /\ UNCHANGED <<cwvars, botvars, restvars>>)
    /\ WF_vars((\E s \in stops : StopReturn(s)) /\ UNCHANGED <<cwvars, botvars, restvars>>)
    /\ WF_vars(SleeperPending /\ Tick /\ UNCHANGED <<cwvars, botvars, restvars>>)

LiveSpec == Init /\ [][Next]_vars /\ Fairness

\* SpecOrder: one pool with a single worker and no rate limit, never
\* stopped; producers enqueue before and after start().
InitOrder == InitQueue(1, 0) /\ InitWindow(0, None) /\ InitBot /\ InitRest

OrderNext ==
    \/ \E p \in Priorities : stats.enqueued < OrderItems /\ enqueue(p)
    \/ start
    \/ \E t \in Tasks : WorkerLoop(t)
    \/ \E t \in Tasks : WorkerWake(t)
    \/ \E t \in Tasks : CallbackReturn(t)
    \/ \E t \in Tasks : CallbackRaise(t)
    \/ now < StartOfTime + OrderTicks /\ Tick

NextOrder == OrderNext /\ UNCHANGED <<cwvars, botvars, restvars>>

SpecOrder == InitOrder /\ [][NextOrder]_vars

\* SpecCW: one ContextWindow of any capacity, with or without max_age,
\* under any sequence of add_message, add_event and clear calls while the
\* clock advances.
InitCW ==
    /\ InitQueue(1, 0)
    /\ \E n \in 0..CwMaxSize, a \in {None, 0, CwMaxAge} : InitWindow(n, a)
    /\ InitBot
    /\ InitRest

CwNext ==
    \/ \E u \in Users, ts \in Timestamps : cw_ops < CwOps /\ AddMessage(u, ts)
    \/ \E u \in Users \cup {NoUser}, ts \in Timestamps : cw_ops < CwOps /\ AddEvent(u, ts)
    \/ Clear
    \/ now < StartOfTime + CwTicks /\ CwTick

NextCW == CwNext /\ UNCHANGED <<botvars, restvars>>

SpecCW == InitCW /\ [][NextCW]_vars

\* SpecBot: a TwitchBot that connects and then receives any messages, in
\* any channel and from any author, while the handlers of earlier messages
\* are suspended in channel.send.  Its MessageQueue (max_workers 1, no
\* rate limit) is never started.
InitBotSpec == InitQueue(1, 0) /\ InitWindow(0, None) /\ InitBot /\ InitRest

BotNext ==
    \/ Connect
    \/ ProcessMessageQueue
    \/ \E c \in InboundChannels, a \in Authors, text \in Contents :
          received < BotMessages /\ EventMessage(c, a, text)
    \/ \E h \in sending : SendReturn(h)
    \/ \E h \in sending : SendRaise(h)

NextBot == BotNext /\ UNCHANGED restvars

SpecBot == InitBotSpec /\ [][NextBot]_vars

\* SpecDrain: a pool that is started and never stopped, with any number of
\* workers, with or without a rate limit; producers enqueue and callers
\* wait for the queue to drain with wait_empty.
InitDrain ==
    /\ \E mw \in 1..MaxWorkers, rl \in {0, RateLimit} : InitQueue(mw, rl)
    /\ InitWindow(0, None)
    /\ InitBot
    /\ InitRest

DrainNext ==
    \/ stats.enqueued < PoolItems /\ enqueue(0) /\ UNCHANGED waitvars
    \/ ~running /\ start /\ UNCHANGED waitvars
    \/ \E t \in Tasks : WorkerStep(t) /\ JoinNotify
    \/ (now < StartOfTime + PoolTicks \/ SleeperPending) /\ Tick /\ UNCHANGED waitvars
    \/ joining + woken < DrainWaits /\ wait_empty /\ UNCHANGED qvars
    \/ JoinReturn /\ UNCHANGED qvars

NextDrain == DrainNext /\ UNCHANGED <<cwvars, botvars, ppvars, replyvars>>

SpecDrain == InitDrain /\ [][NextDrain]_vars

\* the pool as it runs between start() and stop(): items are put, the workers
\* and the clock advance
RunNext ==
    \/ stats.enqueued < PoolItems /\ enqueue(0)
    \/ ~running /\ start
    \/ \E t \in Tasks : WorkerStep(t)
    \/ (now < StartOfTime + PoolTicks \/ SleeperPending) /\ Tick

NextRun == RunNext /\ UNCHANGED <<cwvars, botvars, restvars>>

\* the scheduling of the asyncio loop, as for LiveSpec
AllWorkers == 1..MaxWorkers

RunFairness ==
    /\ \A t \in AllWorkers :
         WF_vars(t \in Tasks /\ WorkerStep(t)
                 /\ UNCHANGED <<cwvars, botvars, restvars>>)
    /\ WF_vars(SleeperPending /\ Tick /\ UNCHANGED <<cwvars, botvars, restvars>>)

LiveRun == InitDrain /\ [][NextRun]_vars /\ RunFairness

\* the pool started once, with callbacks that take time
StatsNext ==
    \/ stats.enqueued < PoolItems /\ enqueue(0)
    \/ (running \/ wpc = <<>>) /\ start
    \/ StopBegin
    \/ \E s \in stops : StopReturn(s)
    \/ \E t \in Tasks : WorkerStep(t)
    \/ (now < StartOfTime + StatTicks \/ SleeperPending) /\ Tick

NextStats == StatsNext /\ UNCHANGED <<cwvars, botvars, restvars>>

SpecStats == InitDrain /\ [][NextStats]_vars

InitPostSpec ==
    /\ InitQueue(1, 0)
    /\ InitWindow(0, None)
    /\ InitBot
    /\ InitWait
    /\ InitCall
    /\ InitReply

NextPost == PostProcess /\ UNCHANGED <<qvars, cwvars, botvars, waitvars, replyvars>>

SpecPost == InitPostSpec /\ [][NextPost]_vars

\* the reply path: the channel's window is empty or holds a message
InitReplySpec ==
    /\ InitQueue(1, 0)
    /\ InitWindow(0, None)
    /\ bot_username = BotName
    /\ \E heard \in BOOLEAN :
          context_windows =
             [c \in BotChannels |->
                 IF heard THEN Heard(ContextWindow(WindowSize, None, now), c, now)
                 ELSE ContextWindow(WindowSize, None, now)]
    /\ processing = "none"
    /\ sending = {}
    /\ sent = {}
    /\ requests = {}
    /\ received = 0
    /\ last = Handling(NoMessage, FALSE, FALSE, <<>>, "", NoReply, "")
    /\ completed = NoCompletion
    /\ InitRest

ReplyNext ==
    \/ /\ Len(reply_done) + Cardinality(replying) < ReplyCalls
       /\ \E channel \in InboundChannels : GenerateAndSend(channel)
    \/ \E c \in replying : GenerateNothing(c)
    \/ \E c \in replying, response \in Replies, joined \in BOOLEAN :
          GenerateReturn(c, response, joined)
    \/ \E c \in replying : ReplySendReturn(c)
    \/ \E c \in replying : ReplySendRaise(c)

NextReply == ReplyNext /\ UNCHANGED <<qvars, cwvars, waitvars, ppvars>>

SpecReply == InitReplySpec /\ [][NextReply]_vars

\* SpecChat: a bot with two configured channels whose windows are empty or
\* hold more messages than a prompt takes; messages arrive in these channels
\* and in one that has no window ("off"),
\* while calls of generate_and_send_response are made and are suspended in
\* the generation and in channel.send.  The processing task has ended
\* (ProcessMessageQueue).
ChatChannels == BotChannels \cup {<<"t","w","o">>}

InitChat ==
    /\ InitQueue(1, 0)
    /\ InitWindow(0, None)
    /\ bot_username = BotName
    /\ \E n \in {0, PromptLines + PromptSlack} :
          context_windows = [c \in ChatChannels |-> Filled(c, n, now)]
    /\ processing = "failed"
    /\ sending = {}
    /\ sent = {}
    /\ requests = {}
    /\ received = 0
    /\ last = Handling(NoMessage, FALSE, FALSE, <<>>, "", NoReply, "")
    /\ completed = NoCompletion
    /\ InitRest

ChatNext ==
    \/ /\ received + Len(reply_done) + Cardinality(replying) < ChatOps
       /\ \E channel \in ChatChannels \cup {<<"o","f","f">>},
             content \in {<<"h","i">>, <<"!","R","e","s","e","t">>} :
             EventMessage(channel, Chatter(<<"m","o">>, TRUE), content)
       /\ UNCHANGED replyvars
    \/ \E h \in sending : SendReturn(h) /\ UNCHANGED replyvars
    \/ \E h \in sending : SendRaise(h) /\ UNCHANGED replyvars
    \/ /\ received + Len(reply_done) + Cardinality(replying) < ChatOps
       /\ \E channel \in ChatChannels \cup {<<"o","f","f">>} : GenerateAndSend(channel)
       /\ UNCHANGED <<qvars, cwvars>>
    \/ \E c \in replying : GenerateNothing(c) /\ UNCHANGED <<qvars, cwvars>>
    \/ \E c \in replying, joined \in BOOLEAN :
          GenerateReturn(c, <<"o","k">>, joined) /\ UNCHANGED <<qvars, cwvars>>
    \/ \E c \in replying : ReplySendReturn(c) /\ UNCHANGED <<qvars, cwvars>>
    \/ \E c \in replying : ReplySendRaise(c) /\ UNCHANGED <<qvars, cwvars>>

NextChat == ChatNext /\ UNCHANGED <<waitvars, ppvars>>

SpecChat == InitChat /\ [][NextChat]_vars

\* ---------------------------------------------------------------- claims
\* worker t dequeues an item in this step
Dequeues(t) == witem'[t] # NoItem /\ witem'[t] # witem[t]

\* the items left in the queue after the step
Queued == {heap'[i][2] : i \in 1..Len(heap')}

\* C1: items are dequeued in non-increasing priority order: an item is never
\* dequeued while an item of numerically higher priority waits in the queue.
C1_HigherPriorityFirst ==
    [][\A t \in Tasks : Dequeues(t) =>
         \A q \in Queued : q.priority <= witem'[t].priority]_vars

\* C2: of two items of equal priority the one enqueued first is dequeued
\* first, also when both were enqueued within the same clock reading.
C2_FifoWithinPriority ==
    [][\A t \in Tasks : Dequeues(t) =>
         \A q \in Queued : q.priority = witem'[t].priority => q.id > witem'[t].id]_vars

\* C3: with a rate limit R the start times of two consecutively started
\* callbacks are at least R apart, whatever the number of workers.
C3_RateGate ==
    (rate_limit # 0 /\ starts[1] # -1) => starts[2] - starts[1] >= rate_limit

\* C4: when stop() calls are suspended and a worker one of them waits for
\* is blocked on the empty queue, one of them eventually returns, unless a
\* further item is enqueued (or further workers are started).
C4_StopReturns ==
    \A m \in AllTasks, n \in 0..PoolItems, k \in AllTasks :
        (/\ Cardinality(stops) = m
         /\ ~running
         /\ heap = <<>>
         /\ \E s \in stops : \E t \in s.gather : wpc[t] = "waiting"
         /\ stats.enqueued = n
         /\ Len(wpc) = k)
        ~> (Cardinality(stops) < m \/ stats.enqueued > n \/ Len(wpc) > k)

\* an item has been through its callback, counted and marked done
Accounted(i) == outcome[i] # "none" /\ i \in marked

\* C5: an item that a worker holds when stop() is called has been through
\* its callback, counted in processed or errors and marked done before that
\* worker exits and before that stop() returns.
C5_InFlightCompletes ==
    /\ \A i \in ItemIds :
         (taker[i] # 0 /\ wpc[taker[i]] = "exited") => Accounted(i)
    /\ \A i \in returned : Accounted(i)
    /\ stats.processed = Cardinality({i \in ItemIds : outcome[i] = "processed"})
    /\ stats.errors = Cardinality({i \in ItemIds : outcome[i] = "errors"})

\* C6: when a callback raises, errors grows by exactly 1, processed is
\* unchanged, the item is marked done, the worker goes on: it is terminated
\* only if stop() was requested, otherwise it dequeues the next item or
\* waits for one; no other worker changes position, and the pool's running
\* flag and the pending stop() calls are untouched.
C6_FailureIsContained ==
    [][\A t \in Tasks :
         (wpc[t] = "callback" /\ outcome'[witem[t].id] = "errors") =>
            /\ stats'.errors = stats.errors + 1
            /\ stats'.processed = stats.processed
            /\ stats'.enqueued = stats.enqueued
            /\ witem[t].id \in marked'
            /\ unfinished' = unfinished - 1
            /\ running => wpc'[t] # "exited"
            /\ (running /\ heap # <<>>) =>
                  (witem'[t] # NoItem /\ witem'[t].id # witem[t].id)
            /\ \A u \in Tasks \ {t} : wpc'[u] = wpc[u]
            /\ running' = running
            /\ stops' = stops]_vars

\* C6 witness: the worker whose callback raised on item i is now running
\* the callback of a later item j, next to another live worker.
C6_Witness ==
    \E i, j \in ItemIds :
        /\ i # j
        /\ outcome[i] = "errors"
        /\ taker[j] = taker[i]
        /\ wpc[taker[j]] = "callback"
        /\ witem[taker[j]].id = j
        /\ \E u \in Tasks \ {taker[i]} : wpc[u] # "exited"

\* the worker loops that have not terminated
LiveLoops == {t \in Tasks : wpc[t] # "exited"}

\* C7: start() is idempotent: while the pool is running the number of
\* worker loops is exactly max_workers, however many times start() was
\* called and whether or not a stop() is still pending.
C7_StartIdempotent ==
    running => (Cardinality(workers) = max_workers
                /\ Cardinality(LiveLoops) = max_workers)

\* the last n elements of l (all of l when it is shorter)
LastN(l, n) == SubSeq(l, (IF Len(l) > n THEN Len(l) - n ELSE 0) + 1, Len(l))

\* C8: once N+k messages (k >= 0) were inserted into a window of capacity N
\* without max_age, get_recent_messages(None) is the last N inserted,
\* oldest first, current_message_count is N and message_count is N+k.
C8_BoundedWindow ==
    (cw.max_age = None /\ Len(cw_inserted) >= cw.max_size) =>
        /\ get_recent_messages(cw, None) = LastN(cw_inserted, cw.max_size)
        /\ get_context_summary(cw, now).current_message_count = cw.max_size
        /\ get_context_summary(cw, now).message_count = Len(cw_inserted)

\* C8 witness: more messages than the capacity were inserted (k >= 1) into
\* a window of capacity at least 2 without max_age.
C8_Witness ==
    /\ cw.max_age = None
    /\ cw.max_size >= 2
    /\ Len(cw_inserted) > cw.max_size
    /\ Len(cw.messages) = cw.max_size

\* C9: the messages buffer never holds more than N entries and the events
\* buffer never more than floor(N/2).
C9_BuffersBounded ==
    /\ Len(cw.messages) <= cw.max_size
    /\ Len(cw.events) <= cw.max_size \div 2

\* C9 witness: a window of odd capacity whose events buffer is full at
\* floor(N/2) after an event was evicted, with messages stored too.
C9_Witness ==
    /\ cw.max_size = 3
    /\ Len(cw.events) = 1
    /\ cw.metadata.event_count >= 2
    /\ Len(cw.messages) >= 1

\* s is a contiguous suffix of l
IsSuffix(s, l) ==
    /\ Len(s) <= Len(l)
    /\ s = SubSeq(l, Len(l) - Len(s) + 1, Len(l))

\* C10: the messages buffer is always a contiguous suffix, in insertion
\* order, of the messages inserted since the last clear(): no message is
\* removed while one inserted before it is retained.
C10_EvictionIsFifo == IsSuffix(cw.messages, cw_inserted)

\* C10 witness: the age purge removed a message (the capacity was never
\* reached) and an expired message is still retained behind a fresh one.
C10_Witness ==
    /\ Truthy(cw.max_age)
    /\ Len(cw_inserted) <= cw.max_size
    /\ Len(cw.messages) < Len(cw_inserted)
    /\ \E i \in 2..Len(cw.messages) :
           cw.messages[i].timestamp < now - cw.max_age

\* C11: with max_age set (and positive), once add_message has returned no message of the
\* buffer (as get_recent_messages returns it) is older than max_age,
\* whatever the timestamps of the messages stored before it.
C11_ExpiredPurged ==
    [][(Len(cw_inserted') = Len(cw_inserted) + 1 /\ Truthy(cw.max_age)) =>
         \A i \in 1..Len(get_recent_messages(cw', None)) :
            ~(get_recent_messages(cw', None)[i].timestamp < now - cw.max_age)]_vars

\* the counts a caller of get_recent_messages / get_recent_events passes
Counts == 0..(CwMaxSize + 1)

\* C12: get_recent_messages(count) is the min(count, size) newest messages,
\* oldest first, for every count >= 0 (the empty list for count = 0) and
\* the whole buffer for count = None; get_recent_events likewise.
C12_RecentIsLastCount ==
    /\ get_recent_messages(cw, None) = cw.messages
    /\ get_recent_events(cw, None) = cw.events
    /\ \A count \in Counts :
          /\ get_recent_messages(cw, count) = LastN(cw.messages, count)
          /\ get_recent_events(cw, count) = LastN(cw.events, count)

\* the step is a call of clear(): nothing was added and no time has passed
ClearStep == cw_inserted' = <<>> /\ cw_ops' = cw_ops /\ now' = now

\* C13: clear() leaves both buffers empty, message_count and event_count 0
\* and the active-user set empty; no operation changes max_size or max_age;
\* and the messages buffer stays within max_size after clear() as before.
C13_ClearResets ==
    [][/\ ClearStep =>
            /\ cw'.messages = <<>>
            /\ cw'.events = <<>>
            /\ cw'.metadata.message_count = 0
            /\ cw'.metadata.event_count = 0
            /\ cw'.metadata.active_users = {}
            /\ get_context_summary(cw', now).current_message_count = 0
            /\ get_context_summary(cw', now).active_user_count = 0
        /\ cw'.max_size = cw.max_size
        /\ cw'.max_age = cw.max_age
        /\ Len(cw'.messages) <= cw.max_size]_vars

\* C13 witness: clear() was called on a window that had received entries,
\* and since then more messages than the capacity were added: the buffer
\* is full at max_size and message_count counts from the clear().
C13_Witness ==
    /\ cw.metadata.message_count + cw.metadata.event_count < cw_ops
    /\ cw.max_size >= 1
    /\ Len(cw.messages) = cw.max_size
    /\ cw.metadata.message_count > cw.max_size

\* the step is the arrival of an inbound message, recorded in last'
Arrival == received' = received + 1

\* the inbound message of the step comes from the bot itself
FromBot(message) ==
    message.author.present /\ lower(message.author.name) = lower(bot_username)

\* C14: an inbound message whose author name equals the bot's username,
\* compared case-insensitively, is dropped: no context window changes, no
\* command handler is entered, nothing is enqueued, no generation request
\* is issued and nothing is sent.
C14_OwnMessageDropped ==
    [][(Arrival /\ FromBot(last'.message)) =>
          /\ last'.dropped
          /\ context_windows' = context_windows
          /\ ~last'.entered
          /\ heap' = heap /\ unfinished' = unfinished /\ stats' = stats
          /\ requests' = requests
          /\ sent' = sent /\ sending' = sending]_vars

\* C14 witness: the bot's own message, written in another case than the
\* username, a command that also mentions the bot, was dropped after a
\* message of somebody else had been put into the window.
C14_Witness ==
    /\ last.dropped
    /\ last.message.author.name # bot_username
    /\ last.message.content = <<"!","p","i","n","g"," ","@","b","o","t">>
    /\ \E c \in BotChannels : Len(context_windows[c].messages) = 1

\* the id of the newest message of a buffer (0 for an empty buffer)
NewestId(messages) ==
    IF messages = <<>> THEN 0 ELSE messages[Len(messages)].id

\* C15: a message that passes the self-filter, in a channel that has a
\* window, is in that window when its command handler is entered, and is
\* in the window at the latest when event_message first suspends or ends,
\* whether it is a command, a mention or neither.
C15_ContextBeforeCommand ==
    [][(/\ Arrival
        /\ ~FromBot(last'.message)
        /\ last'.message.channel \in BotChannels) =>
          IF last'.entered
          THEN NewestId(last'.seen) = last'.message.id
          ELSE NewestId(context_windows'[last'.message.channel].messages)
                  = last'.message.id]_vars

\* C15 witness: the reset command of a moderator was handled on a window
\* that held an earlier message and the command itself.
C15_Witness ==
    /\ last.entered
    /\ last.reply = "reset"
    /\ Len(last.seen) = 2
    /\ NewestId(last.seen) = last.message.id

\* C16: once an inbound message that passed the self-filter, written by a
\* user in a channel that has a window, has been dealt with (no handler suspended, nothing queued, the processing loop not
\* busy), a generation request was issued for it if and only if its text
\* contains "@" + the bot's username, case-insensitively.
C16_MentionTriggersRequest ==
    (/\ last.message.id # 0
     /\ ~FromBot(last.message)
     /\ last.message.author.present
     /\ last.message.channel \in BotChannels
     /\ sending = {}
     /\ heap = <<>>
     /\ processing = "failed") =>
        (last.message.id \in requests
            <=> Contains(<<"@">> \o lower(bot_username), lower(last.message.content)))

\* the message of the step invokes the reset command in a channel that
\* has a window
ResetInvoked(message) ==
    /\ ~FromBot(message)
    /\ message.author.present
    /\ CommandName(message.content) = <<"r","e","s","e","t">>
    /\ message.channel \in BotChannels

\* the author is the owner of the channel the message arrived in
IsOwner(message) == lower(message.author.name) = lower(message.channel)

\* the entry that event_message puts into the window for the message
EntryOf(message) == ChatMessageOf(message, now).entry

\* the channel's window is as clear() leaves it
IsCleared(w) ==
    /\ w.messages = <<>>
    /\ w.events = <<>>
    /\ w.metadata.message_count = 0
    /\ w.metadata.event_count = 0
    /\ w.metadata.active_users = {}

\* C17: when a user who is neither moderator nor owner invokes reset, the
\* window is left as it was (with the invoking message appended), a
\* rejection reply is sent to the channel, and command handling returns.
C17_NonModResetRejected ==
    [][(/\ Arrival
        /\ ResetInvoked(last'.message)
        /\ ~last'.message.author.is_mod
        /\ ~IsOwner(last'.message)) =>
          /\ context_windows'[last'.message.channel].messages =
                Append(context_windows[last'.message.channel].messages,
                       EntryOf(last'.message))
          /\ [id |-> last'.message.id, channel |-> last'.message.channel,
              reply |-> "rejected"] \in sent'
          /\ last'.reply = "rejected"]_vars

\* C18 as stated: when the reset command of a moderator completes, the
\* channel's window is empty and its message counter is 0.
C18_EmptyAtCompletion ==
    completed.reply = "reset" =>
        (completed.messages = <<>> /\ completed.message_count = 0)

\* C18 amended: when a moderator invokes reset in a channel that has a
\* window, the window is empty (no messages, no events, counters 0) when
\* the confirmation reply is handed to channel.send, and when the command
\* completes the window holds only messages received after the command.
C18_ModResetClears ==
    [][/\ (Arrival /\ ResetInvoked(last'.message)
                   /\ last'.message.author.is_mod) =>
            /\ IsCleared(context_windows'[last'.message.channel])
            /\ [id |-> last'.message.id, channel |-> last'.message.channel,
                reply |-> "reset"] \in sent' \cap sending'
       /\ (completed' # completed /\ completed'.reply = "reset") =>
            \A i \in 1..Len(completed'.messages) :
                completed'.messages[i].id > completed'.id]_vars

\* C18 witness: the reset of a moderator has completed; it had cleared the
\* window, and a message that arrived while the confirmation was being
\* sent is in the window.
C18_Witness ==
    /\ completed.reply = "reset"
    /\ completed.id = 1
    /\ Len(completed.messages) = 1
    /\ completed.messages[1].id = 2

\* C19: the channel owner, without the moderator flag, invokes reset: the
\* channel's window is cleared and the confirmation reply is sent.
C19_OwnerResets ==
    [][(/\ Arrival
        /\ ResetInvoked(last'.message)
        /\ ~last'.message.author.is_mod
        /\ IsOwner(last'.message)) =>
          /\ IsCleared(context_windows'[last'.message.channel])
          /\ [id |-> last'.message.id, channel |-> last'.message.channel,
              reply |-> "reset"] \in sent']_vars

\* C20: the processing loop keeps running: once started it is never ended
\* by an exception, so that the items queued behind a failed one are still
\* processed.
C20_LoopKeepsRunning == processing # "failed"

\* C21: wait_empty returns only when the queue is empty and every dequeued
\* item has been marked done: never while an item is in flight in a worker.
C21_WaitEmptyDrained ==
    wait_result.returned =>
        (wait_result.qsize = 0 /\ wait_result.unfinished = 0
         /\ wait_result.inflight = {})

\* the number of entries of the queue that hold item i
InHeap(i) == Cardinality({k \in 1..Len(heap) : heap[k][2].id = i})

\* the number of workers that hold item i
Handed(i) ==
    Cardinality({t \in Tasks : witem[t] # NoItem /\ witem[t].id = i})

\* C26: every enqueued item is in exactly one place: in the queue, with
\* exactly one worker, or done; the worker it was handed to never changes;
\* and in a running pool whose callbacks terminate every enqueued item is
\* eventually processed (or counted as an error).
C26_ExactlyOnceAndEventually ==
    /\ [](\A i \in ItemIds :
            InHeap(i) + Handed(i) + (IF outcome[i] # "none" THEN 1 ELSE 0) = 1)
    /\ [][\A i \in ItemIds : taker[i] # 0 => taker'[i] = taker[i]]_vars
    /\ \A i \in 1..PoolItems :
          (running /\ i \in ItemIds) ~> (i \in ItemIds /\ outcome[i] # "none")

\* C26 witness: two workers are in the callbacks of two different items at
\* the same time.
C26_Witness ==
    \E t, u \in Tasks :
        /\ t # u
        /\ wpc[t] = "callback" /\ wpc[u] = "callback"
        /\ witem[t].id # witem[u].id

\* the text starts with the command prefix and names no registered command
UnknownCommand(content) ==
    startswith(content, <<"!">>) /\ CommandName(content) \notin Commands

Cleaned == Unquote(strip(pp_raw))

Bases ==
    {pp_out} \cup
    {b \in {RTake(pp_out, RLen(pp_out) - 1 - RLen(e)) : e \in pp_env.all_emotes} :
        \E e \in pp_env.all_emotes :
            pp_out = Concat(Concat(b, <<Run(" ", 1)>>), e)}

EndedNow == IF Len(reply_done') > Len(reply_done)
            THEN {reply_done'[Len(reply_done')]} ELSE {}

\* C23: when a reply has been sent, the channel's window gains, at its end,
\* a message with the reply's text, the bot's name, is_mod set and
\* is_subscriber clear; a step of the reply path in which no send returned
\* leaves every window as it is.
C23_ReplyIsAppended ==
    [][IF \E e \in EndedNow : e.result = "sent"
       THEN \A e \in EndedNow :
              LET before == context_windows[e.channel].messages
                  after == context_windows'[e.channel].messages
                  m == after[Len(after)]
              IN  /\ SubSeq(after, 1, Len(after) - 1) = before
                  /\ m.message = e.response
                  /\ m.username = bot_username
                  /\ m.is_mod /\ ~m.is_subscriber
                  /\ m.channel = e.channel
                  /\ \A c \in DOMAIN context_windows \ {e.channel} :
                        context_windows'[c] = context_windows[c]
       ELSE context_windows' = context_windows]_vars

C23_Witness ==
    /\ \E k \in 1..Len(reply_done) : reply_done[k].result = "sent"
    /\ \E k \in 1..Len(reply_done) : reply_done[k].result = "send_failed"
    /\ \E c \in BotChannels :
          LET ms == context_windows[c].messages
          IN  Len(ms) = 2 /\ ms[2].username = bot_username /\ ms[2].is_mod

\* C25: enqueued, processed, errors and total_processing_time never
\* decrease, and a step that completes an item successfully leaves
\* avg_processing_time = total_processing_time / processed (durations are
\* whole ticks, the quotient is the integer one).
C25_StatsMonotone ==
    [][/\ stats'.enqueued >= stats.enqueued
       /\ stats'.processed >= stats.processed
       /\ stats'.errors >= stats.errors
       /\ stats'.total_processing_time >= stats.total_processing_time
       /\ stats'.processed # stats.processed =>
             /\ stats'.processed = stats.processed + 1
             /\ stats'.avg_processing_time =
                   stats'.total_processing_time \div stats'.processed]_vars

C25_Witness ==
    /\ stats.processed >= 1
    /\ stats.errors >= 1
    /\ stats.total_processing_time >= 1
    /\ stats.avg_processing_time = stats.total_processing_time \div stats.processed

\* the items with the given outcome
Outcomes(result) == {i \in ItemIds : outcome[i] = result}

\* C27: processed + errors <= enqueued; every item that went through its
\* callback is counted once, in processed or in errors, and marked done
\* once; and when no worker holds an item, enqueued = processed + errors +
\* the number of items in the queue.
C27_Accounting ==
    /\ stats.processed + stats.errors <= stats.enqueued
    /\ stats.processed = Cardinality(Outcomes("processed"))
    /\ stats.errors = Cardinality(Outcomes("errors"))
    /\ marked = Outcomes("processed") \cup Outcomes("errors")
    /\ unfinished = stats.enqueued - Cardinality(marked)
    /\ InFlight = {} =>
          stats.enqueued = stats.processed + stats.errors + Len(heap)

C27_Witness ==
    /\ InFlight = {}
    /\ stats.processed = 1
    /\ stats.errors = 1
    /\ stats.enqueued = 2
    /\ \E t \in Tasks : wpc[t] = "exited"

\* C28: a worker loop starts a new item only while the pool is running: a
\* loop left waiting on the empty queue when stop() was called does not
\* dequeue an item that is enqueued afterwards.
C28_NoNewItemAfterStop ==
    [][\A t \in Tasks : Dequeues(t) => running]_vars

\* C29: stop() on a pool that is not running changes nothing: running, the
\* worker list, the worker loops, the queue, the statistics and the pending
\* stop() calls are as before.
C29_StopIdempotent ==
    [][(~running /\ StopBegin) =>
          /\ running' = running
          /\ workers' = workers
          /\ wpc' = wpc
          /\ heap' = heap
          /\ unfinished' = unfinished
          /\ stats' = stats
          /\ stops' = stops
          /\ returned' = returned]_vars

\* C29 witness: a pool that was started and stopped, with items left in
\* its queue and a worker loop still alive, on which stop() is called again
C29_Witness ==
    /\ ~running
    /\ ENABLED StopBegin
    /\ workers # {}
    /\ heap # <<>>
    /\ \E t \in Tasks : wpc[t] # "exited"

\* C30: a reply that fails (the generation fails or returns nothing, or
\* the send fails) is counted as an errored queue item: errors grows by
\* one, processed does not; and no second generation request is made.
C30_FailedReplyIsAnError ==
    [][\A e \in EndedNow :
          e.result \in {"none", "raised", "send_failed"} =>
             /\ stats'.errors = stats.errors + 1
             /\ stats'.processed = stats.processed
             /\ requests' = requests]_vars

\* C31: a message that passes the self-filter and mentions the bot is pushed
\* onto the task queue, once and at priority 0, by the event_message that
\* receives it; no more than one generation request and one reply follow.
C31_EligibleIsEnqueuedOnce ==
    [][(/\ Arrival
        /\ ~FromBot(last'.message)
        /\ ~startswith(last'.message.content, <<"!">>)
        /\ should_respond_to(bot_username, last'.message.content)) =>
          /\ stats'.enqueued = stats.enqueued + 1
          /\ Len(heap') = Len(heap) + 1
          /\ \E k \in 1..Len(heap') : 
                heap'[k][1] = 0 /\ \A j \in 1..Len(heap) : heap[j] # heap'[k]
          /\ Cardinality(requests') <= Cardinality(requests) + 1
          /\ Cardinality(sent') <= Cardinality(sent) + 1]_vars

\* C32: the text that _post_process_response returns for sending is never
\* longer than 500 characters, whatever the response, the emote list and
\* the random draw.
C32_SentWithinLimit ==
    pp_env.called => RLen(pp_out) <= TwitchLimit

\* the response as it is after cleaning and cutting, before the emote step
Processed == Truncate(Cleaned)

\* C33: the text returned is the processed response, or the processed
\* response followed by one space and one emote code of the list; the
\* latter only if the list is not empty and the processed response
\* contains none of its codes, whatever the draw.
C33_AtMostOneEmote ==
    pp_env.called =>
       /\ \/ pp_out = Processed
          \/ \E e \in pp_env.all_emotes :
                pp_out = Norm(Processed \o <<Run(" ", 1)>> \o e)
       /\ (\/ pp_env.all_emotes = {}
           \/ \E e \in pp_env.all_emotes : Mentions(Processed, e)
           \/ ~pp_env.roll) => pp_out = Processed

\* C33 witness: an emote was appended to a response that held none
C33_Witness ==
    /\ pp_env.called
    /\ pp_env.roll
    /\ pp_out # Processed
    /\ RLen(pp_out) = RLen(Processed) + 2

\* the step is a call of add_message / of add_event
AddMessageStep == Len(cw_inserted') = Len(cw_inserted) + 1
AddEventStep == cw_ops' = cw_ops + 1 /\ cw_inserted' = cw_inserted

\* C39: the buffers never hold more than the cumulative counters say; every
\* add_message adds exactly 1 to message_count and every add_event exactly
\* 1 to event_count, whatever is evicted or purged by the call; and except
\* in clear() no counter decreases and the active-user set loses nobody.
C39_CountersCumulative ==
    /\ [](/\ get_context_summary(cw, now).current_message_count
                <= get_context_summary(cw, now).message_count
          /\ get_context_summary(cw, now).current_event_count
                <= get_context_summary(cw, now).event_count)
    /\ [][/\ AddMessageStep =>
               /\ cw'.metadata.message_count = cw.metadata.message_count + 1
               /\ cw'.metadata.event_count = cw.metadata.event_count
          /\ AddEventStep =>
               /\ cw'.metadata.event_count = cw.metadata.event_count + 1
               /\ cw'.metadata.message_count = cw.metadata.message_count
          /\ ~ClearStep =>
               /\ cw'.metadata.message_count >= cw.metadata.message_count
               /\ cw'.metadata.event_count >= cw.metadata.event_count
               /\ cw.metadata.active_users \subseteq cw'.metadata.active_users]_vars

\* C39 witness: messages and events were evicted or purged, and a user whose
\* entries are all gone is still counted as active
C39_Witness ==
    /\ Len(cw.messages) < cw.metadata.message_count
    /\ Len(cw.events) < cw.metadata.event_count
    /\ \E u \in cw.metadata.active_users :
          /\ \A i \in 1..Len(cw.messages) : cw.messages[i].username # u
          /\ \A i \in 1..Len(cw.events) : cw.events[i].username # u

\* C40: for every message that starts with the prefix, the command name
\* TwitchBot.handle_command dispatches on is the one ChatMessage.get_command
\* returns: the first whitespace-delimited token, prefix stripped, in lower
\* case; in particular a handler is entered only if that token names it.
C40_DispatchOnFirstToken ==
    [][(/\ Arrival
        /\ ~FromBot(last'.message)
        /\ startswith(last'.message.content, <<"!">>)) =>
          /\ CommandName(last'.message.content) = get_command(last'.message.content)
          /\ last'.entered => get_command(last'.message.content) \in Commands]_vars

\* C34: the prompt built when a reply call runs holds at most 10 context
\* lines: the newest messages that the channel's window holds at that
\* moment, oldest first, each as "username: text".
C34_PromptIsNewest ==
    [][requests' # requests =>
          LET window == context_windows[prompted'.channel].messages
              recent == LastN(window, PromptLines)
              lines == prompted'.lines
          IN  /\ Len(lines) <= PromptLines
              /\ Len(lines) = Len(recent)
              /\ \A i \in 1..Len(lines) :
                    lines[i] = recent[i].username \o <<":", " ">> \o recent[i].message]_vars

\* C34 witness: a prompt of 10 lines from a window that held more, whose
\* newest line is a message that arrived after the window was filled
C34_Witness ==
    /\ Len(prompted.lines) = PromptLines
    /\ Len(context_windows[prompted.channel].messages) > PromptLines
    /\ prompted.lines[PromptLines] = <<"m","o",":"," ","h","i">>
    /\ prompted.lines[1] = <<"a","l",":"," ","h","i">>

\* C35: a message that arrives while a generation call is pending is added
\* to its window and enqueued, and its event_message completes, with the
\* generation still pending.
C35_IngestionDoesNotWait ==
    [][(/\ Arrival
        /\ ~FromBot(last'.message)
        /\ \E c \in replying : c.pc = "generating") =>
          /\ replying' = replying
          /\ last'.message.channel \in DOMAIN context_windows =>
                \E i \in 1..Len(context_windows'[last'.message.channel].messages) :
                   context_windows'[last'.message.channel].messages[i].id
                      = last'.message.id
          /\ stats'.enqueued = stats.enqueued + 1
          /\ last'.fault = ""]_vars

\* the messages of a window that chatters wrote
UserMessages(w) ==
    SelectSeq(w.messages, LAMBDA m : lower(m.username) # lower(bot_username))

\* C36: in every window the chatters' messages stand in the order of their
\* arrival; a step leaves them as they are, appends the message that
\* arrives in that channel, or empties the window (reset); replies of the
\* bot that are appended in between do not reorder them.
C36_ArrivalOrder ==
    /\ [](\A c \in DOMAIN context_windows :
            LET u == UserMessages(context_windows[c])
            IN  \A i, j \in 1..Len(u) : i < j => u[i].id < u[j].id)
    /\ [][\A c \in DOMAIN context_windows :
            LET u == UserMessages(context_windows[c])
                v == UserMessages(context_windows'[c])
            IN  \/ v = u
                \/ v = <<>>
                \/ /\ Arrival
                   /\ last'.message.channel = c
                   /\ v = Append(u, EntryOf(last'.message))]_vars

\* C36 witness: a window in which a reply of the bot stands between an
\* earlier message of a chatter and one that arrived after it
C36_Witness ==
    \E c \in DOMAIN context_windows :
       LET ms == context_windows[c].messages
       IN  \E i, j, k \in 1..Len(ms) :
              /\ i < j /\ j < k
              /\ ms[i].username # bot_username
              /\ ms[j].username = bot_username
              /\ ms[k].id >= 1 /\ ms[k].id > ms[i].id
              /\ ms[k].username # bot_username

\* C37: the channels that have a window are those of the construction, in
\* every state; a message that arrives in a channel without a window
\* changes no window; a reply call for such a channel ends without a
\* prompt, a generation request or a send.
C37_WindowSetFixed ==
    /\ [](/\ DOMAIN context_windows = ChatChannels
          /\ \A c \in replying : c.channel \in DOMAIN context_windows
          /\ \A k \in 1..Len(reply_done) :
                reply_done[k].channel \notin DOMAIN context_windows =>
                   (reply_done[k].result = "no_context"
                    /\ reply_done[k].id \notin requests)
          /\ prompted.id # 0 => prompted.channel \in DOMAIN context_windows)
    /\ [][/\ DOMAIN context_windows' = DOMAIN context_windows
          /\ (Arrival /\ last'.message.channel \notin DOMAIN context_windows) =>
                context_windows' = context_windows]_vars

\* C37 witness: a message arrived in, and a reply call was made for, the
\* channel that has no window
C37_Witness ==
    /\ last.message.id # 0
    /\ last.message.channel \notin DOMAIN context_windows
    /\ \E k \in 1..Len(reply_done) :
          reply_done[k].channel \notin DOMAIN context_windows

\* C38: a step changes the window of a channel only if it is the arrival
\* of a message in that channel (with the reset it may invoke) or the
\* return of a reply's send in that channel.
C38_ChannelIsolation ==
    [][\A c \in DOMAIN context_windows :
          context_windows'[c] # context_windows[c] =>
             \/ Arrival /\ last'.message.channel = c
             \/ \E e \in EndedNow : e.result = "sent" /\ e.channel = c]_vars

\* C38 witness: one channel's window was reset and the other's holds a
\* reply of the bot on top of the messages it started with
C38_Witness ==
    \E a, b \in DOMAIN context_windows :
       /\ a # b
       /\ IsCleared(context_windows[a])
       /\ LET ms == context_windows[b].messages
          IN  /\ Len(ms) = PromptLines + PromptSlack + 1
              /\ ms[Len(ms)].username = bot_username

====
